---- MODULE Spec2Model ----
(***************************************************************************)
(* natural2sql: the SQL extraction, validation, execution and retry        *)
(* pipeline (app.py main(), SQLParser, SQLiteConnector, MySQLConnector,    *)
(* SQLExecutor, ErrorHandler) and the loader of the business terms         *)
(* (BusinessTermsLoader).                                                  *)
(*                                                                         *)
(* Text.  A Python str is modelled as a sequence of lexemes (TLA+ strings):*)
(* the concatenation of the lexemes is the text.  Lexemes are chosen so    *)
(* that no keyword the code searches for spans two lexemes, hence the      *)
(* substring test `kw in text` is `some lexeme is kw`.  Two lexemes with   *)
(* no blank between them are adjacent characters: <<"x", "limit">> is the  *)
(* identifier xlimit, <<"'", "DELETE", "'">> a string literal.             *)
(* TLA+ strings are ASCII without backquote or double quote, so            *)
(*   "<fence>"   stands for three backquotes,                              *)
(*   "{'sql':'"  for the JSON prefix  { "sql" : "  and "'}" for its end,   *)
(* and the Japanese messages of the code are written as English glosses    *)
(* in square brackets (the table is at MsgForbidden .. MsgMySQL).          *)
(***************************************************************************)
EXTENDS Integers, Sequences, FiniteSets, TLC

VARIABLES
    pc,             \* position of main() / of the function under study
    is_executing,   \* st.session_state.is_executing
    user_input,     \* the question text
    max_retries,    \* Config.MAX_RETRIES, read at app.py:293
    MAX_DISPLAY_ROWS, \* Config.MAX_DISPLAY_ROWS, the configured number of rows
    attempt,        \* loop variable of `for attempt in range(max_retries)`
    error_context,  \* <<>> for None, else <<[sql, error_message]>>
    ai_response,    \* text returned by ai_connector.generate
    parse_result,   \* dict returned by SQLParser.extract_sql
    sql,            \* parse_result["sql"] / the argument of execute_query
    conn,           \* which connector: "sqlite", "mysql", "executor"
    connected,      \* self.conn is not None
    validation,     \* dict returned by the last validate_sql call
    arg_limit,      \* the limit / max_rows argument of the last execute_query
    exec_result,    \* outcome of the execute_query call of this attempt
    ai_calls,       \* number of ai_connector.generate calls for this question
    db_calls,       \* number of execute_query calls for this question
    prompt_ctx,     \* error_context given to the last PromptGenerator.generate
    outcome,        \* terminal reports made for this question, in order
    query_history,  \* st.session_state.query_history
    questions,      \* number of questions started
    terms_file,     \* the business terms file: whether it exists, its lines
    line_num,       \* number of lines of the file that load has read
    terms,          \* the list `terms` of load
    load_result,    \* <<>> while load runs, else <<its return or raise>>
    business_terms, \* business_terms of validate_config_on_startup
    open_conns      \* sqlite3 connections SQLExecutor opened and did not close

vars == <<pc, is_executing, user_input, max_retries, MAX_DISPLAY_ROWS,
          attempt, error_context,
          ai_response, parse_result, sql, conn, connected, validation,
          arg_limit, exec_result, ai_calls,
          db_calls, prompt_ctx, outcome, query_history, questions,
          terms_file, line_num, terms, load_result, business_terms, open_conns>>

(***************************************************************************)
(* Bounds.                                                                 *)
(***************************************************************************)
MaxLen == 3
MaxBudget == 3
MaxQuestions == 2
TableRows == 1001

(***************************************************************************)
(* Program constants.                                                      *)
(***************************************************************************)
DEFAULT_LIMIT == 1000

\* the default of Config.MAX_DISPLAY_ROWS (environment variable PREVIEW_LIMIT)
PREVIEW_LIMIT == 10

\* app.py:348, the row count from which the result is reported as capped
CAPPED_AT == 1000

FORBIDDEN_PATTERNS ==
    <<"INSERT", "UPDATE", "DELETE", "DROP", "CREATE", "ALTER", "TRUNCATE",
      "PRAGMA", "ATTACH", "DETACH", "VACUUM", "REINDEX">>

\* Messages of the code (Japanese in the source; glossed here).
MsgForbidden == "[forbidden operation] is included: "  \* "禁止操作が含まれています: "
MsgMultiple == "[multiple statements cannot run]"      \* "複数のステートメントは実行できません"
MsgReadOnly == "write is [not permitted] (READ ONLY)"  \* "書込み操作は許可されていません（READ ONLYモード）"
MsgSqlError == "[SQL execution error]: "            \* "SQL実行エラー: "
MsgDbError == "[database error]: "                  \* "データベースエラー: "
MsgMySQL == "[MySQL execution error]: "             \* "MySQL実行エラー: "
MsgUnexpected == "[unexpected error]: "             \* "予期しないエラー: "
MsgNotConnected == "Database not connected. Call connect() first."

(***************************************************************************)
(* str operations on lexeme sequences.                                     *)
(***************************************************************************)
None == <<>>

\* no business terms file: Config.BUSINESS_TERMS_PATH names a missing file
NoFile == [exists |-> FALSE, lines |-> <<>>]
Some(v) == <<v>>

MinOf(S) == CHOOSE x \in S : \A y \in S : x <= y
MaxOf(S) == CHOOSE x \in S : \A y \in S : y <= x

Whitespace == {" "}

\* str.upper(), lexeme by lexeme
upper_lexeme(c) ==
    CASE c = "delete" -> "DELETE"
      [] c = "insert" -> "INSERT"
      [] c = "limit" -> "LIMIT"
      [] c = "select" -> "SELECT"
      [] c = "with" -> "WITH"
      [] c = "x" -> "X"
      [] c = "from" -> "FROM"
      [] c = "members" -> "MEMBERS"
      [] c = "<fence>sql" -> "<fence>SQL"
      [] OTHER -> c

str_upper(t) == [i \in DOMAIN t |-> upper_lexeme(t[i])]

\* `c in t` for a keyword c
str_in(c, t) == \E i \in DOMAIN t : t[i] = c

\* str.count(c)
str_count(t, c) == Cardinality({i \in DOMAIN t : t[i] = c})

\* str.strip(): leading and trailing whitespace removed
str_strip(t) ==
    LET keep == {i \in DOMAIN t : t[i] \notin Whitespace}
    IN  IF keep = {} THEN <<>> ELSE SubSeq(t, MinOf(keep), MaxOf(keep))

\* str.rstrip(";"): every trailing ";" removed
str_rstrip_semi(t) ==
    LET keep == {i \in DOMAIN t : t[i] # ";"}
    IN  IF keep = {} THEN <<>> ELSE SubSeq(t, 1, MaxOf(keep))

(***************************************************************************)
(* validate_sql, one definition per class that has one.                    *)
(***************************************************************************)
\* the first pattern of FORBIDDEN_PATTERNS found in sql_upper, as the for
\* loop finds it (0: none)
FirstForbidden(sql_upper) ==
    LET hits == {k \in DOMAIN FORBIDDEN_PATTERNS :
                    str_in(FORBIDDEN_PATTERNS[k], sql_upper)}
    IN  IF hits = {} THEN 0 ELSE MinOf(hits)

\* a variant of validate_sql that searches the text as written, without upper()
SQLite_validate_sql_as_written(s) ==
    LET k == FirstForbidden(s)
    IN  IF k # 0
        THEN [valid |-> FALSE, error_type |-> "forbidden_pattern",
              message |-> <<MsgForbidden, FORBIDDEN_PATTERNS[k]>>]
        ELSE IF str_count(s, ";") > 1
        THEN [valid |-> FALSE, error_type |-> "multiple_statements",
              message |-> <<MsgMultiple>>]
        ELSE [valid |-> TRUE, error_type |-> "None", message |-> <<>>]

SQLite_validate_sql(s) ==
    LET k == FirstForbidden(str_upper(s))
    IN  IF k # 0
        THEN [valid |-> FALSE, error_type |-> "forbidden_pattern",
              message |-> <<MsgForbidden, FORBIDDEN_PATTERNS[k]>>]
        ELSE IF str_count(s, ";") > 1
        THEN [valid |-> FALSE, error_type |-> "multiple_statements",
              message |-> <<MsgMultiple>>]
        ELSE [valid |-> TRUE, error_type |-> "None", message |-> <<>>]

MySQL_validate_sql(s) ==
    LET k == FirstForbidden(str_upper(s))
    IN  IF k # 0
        THEN [valid |-> FALSE, error_type |-> "forbidden_pattern",
              message |-> <<MsgForbidden, FORBIDDEN_PATTERNS[k]>>]
        ELSE IF str_count(s, ";") > 1
        THEN [valid |-> FALSE, error_type |-> "multiple_statements",
              message |-> <<MsgMultiple>>]
        ELSE [valid |-> TRUE, error_type |-> "None", message |-> <<>>]

\* SQLExecutor._validate_sql returns {valid, error}: it has no error_type key
Executor_validate_sql(s) ==
    LET k == FirstForbidden(str_upper(s))
    IN  IF k # 0
        THEN [valid |-> FALSE, error_type |-> "absent",
              message |-> <<MsgForbidden, FORBIDDEN_PATTERNS[k]>>]
        ELSE IF str_count(s, ";") > 1
        THEN [valid |-> FALSE, error_type |-> "absent",
              message |-> <<MsgMultiple>>]
        ELSE [valid |-> TRUE, error_type |-> "absent", message |-> <<>>]

validate_sql(c, s) ==
    CASE c = "sqlite" -> SQLite_validate_sql(s)
      [] c = "mysql" -> MySQL_validate_sql(s)
      [] c = "executor" -> Executor_validate_sql(s)

(***************************************************************************)
(* connect / _get_connection: the mode the connection is opened in.        *)
(* "ro": the database refuses every write on it (sqlite3 URI mode=ro);     *)
(* "default": an ordinary session with the rights of the configured user.  *)
(***************************************************************************)
connection_mode(c) ==
    CASE c = "sqlite" -> "ro"
      [] c = "mysql" -> "default"
      [] c = "executor" -> "ro"

(***************************************************************************)
(* Layer 3: LIMIT injection (the same three lines in each class).          *)
(***************************************************************************)
inject_limit(s, limit) ==
    LET sql_stripped == str_rstrip_semi(str_strip(s))
    IN  IF ~str_in("LIMIT", str_upper(sql_stripped))
        THEN sql_stripped \o <<" ", "LIMIT", " ", ToString(limit)>>
        ELSE sql_stripped

(***************************************************************************)
(* The database behind pd.read_sql_query / cursor.execute: what the driver *)
(* answers to one statement.  [at, exc, msg, rows]: exc = "None" is a      *)
(* result set of `rows` rows; otherwise the exception class raised, with   *)
(* its text; at = "connect" is a failure of sqlite3.connect itself         *)
(* (SQLExecutor opens a connection per call).                              *)
(***************************************************************************)
\* the number after a closing LIMIT clause, as the backend reads it
\* (TableRows + 1: the statement ends with no LIMIT clause)
RowLimitOf(stmt) ==
    LET n == Len(stmt)
    IN  IF /\ n >= 4
           /\ stmt[n - 3] \in Whitespace
           /\ upper_lexeme(stmt[n - 2]) = "LIMIT"
           /\ stmt[n - 1] \in Whitespace
           /\ stmt[n] \in {"1", ToString(DEFAULT_LIMIT)}
        THEN IF stmt[n] = "1" THEN 1 ELSE DEFAULT_LIMIT
        ELSE TableRows + 1

\* a table of TableRows rows: the empty result and the longest one
ResultSizes(stmt) ==
    {0, IF RowLimitOf(stmt) < TableRows THEN RowLimitOf(stmt) ELSE TableRows}

SqliteErrors ==
    {"attempt to write a readonly database", "no such column: x",
     "no such table: x", "database is locked"}

MySQLErrors ==
    {"Unknown column x in field list", "Table x does not exist",
     "Query execution was interrupted, maximum statement execution time exceeded"}

DbAnswers(c, stmt) ==
    {[at |-> "execute", exc |-> "None", msg |-> "", rows |-> r] :
        r \in ResultSizes(stmt)}
    \cup (IF c = "mysql"
          THEN {[at |-> "execute", exc |-> "mysql.connector.Error", msg |-> m,
                 rows |-> 0] : m \in MySQLErrors}
          ELSE {[at |-> "execute", exc |-> "sqlite3.OperationalError",
                 msg |-> m, rows |-> 0] : m \in SqliteErrors}
               \cup {[at |-> "execute", exc |-> "sqlite3.Error", rows |-> 0,
                      msg |-> "You can only execute one statement at a time."]})
    \cup {[at |-> "execute", exc |-> "Exception", rows |-> 0,
           msg |-> "Execution failed on sql"]}
    \cup (IF c = "executor"
          THEN {[at |-> "connect", exc |-> "sqlite3.OperationalError",
                 rows |-> 0, msg |-> "unable to open database file"]}
          ELSE {})

\* `needle in lexeme.lower()` for the needles the code searches messages for
lexeme_has(needle, c) ==
    CASE needle = "readonly" -> c = "attempt to write a readonly database"
      [] needle = "attempt to write" ->
            c = "attempt to write a readonly database"
      [] needle = "no such column" -> c = "no such column: x"
      [] needle = "no such table" -> c = "no such table: x"
      [] needle = "[forbidden operation]" -> c = MsgForbidden  \* "禁止操作"
      [] needle = "[not permitted]" -> c = MsgReadOnly  \* "許可されていません"
      [] OTHER -> FALSE

msg_has(needle, m) == \E i \in DOMAIN m : lexeme_has(needle, m[i])

(***************************************************************************)
(* execute_query.  The result: raised = "None" and success for a return    *)
(* (row_count = len(df)), else the class and text of the exception that    *)
(* leaves the method; sent = the statement handed to the driver, if any.   *)
(***************************************************************************)
NoResult ==
    [raised |-> "None", success |-> FALSE, message |-> <<>>, sent |-> None,
     row_count |-> -1, sql_executed |-> None]

Raised(cls, m, sent) ==
    [raised |-> cls, success |-> FALSE, message |-> m, sent |-> sent,
     row_count |-> -1, sql_executed |-> sent]

Returned(stmt, n) ==
    [raised |-> "None", success |-> TRUE, message |-> <<>>, sent |-> Some(stmt),
     row_count |-> n, sql_executed |-> Some(stmt)]

SQLite_execute_query(s, limit, isconn, db) ==
    IF ~isconn THEN Raised("RuntimeError", <<MsgNotConnected>>, None)
    ELSE IF ~SQLite_validate_sql(s).valid
    THEN Raised("ValueError", SQLite_validate_sql(s).message, None)
    ELSE
      LET sql_executed == inject_limit(s, limit)
      IN  CASE db.exc = "None" -> Returned(sql_executed, db.rows)
            [] db.exc = "sqlite3.OperationalError" ->
                 IF \/ lexeme_has("readonly", db.msg)
                    \/ lexeme_has("attempt to write", db.msg)
                 THEN Raised("PermissionError", <<MsgReadOnly>>,
                             Some(sql_executed))
                 ELSE Raised("RuntimeError", <<MsgSqlError, db.msg>>,
                             Some(sql_executed))
            [] db.exc = "sqlite3.Error" ->
                 Raised("RuntimeError", <<MsgDbError, db.msg>>,
                        Some(sql_executed))
            [] OTHER -> Raised(db.exc, <<db.msg>>, Some(sql_executed))

\* a variant of execute_query that sends the statement without validating it
MySQL_execute_query_unvalidated(s, limit, isconn, db) ==
    IF ~isconn THEN Raised("RuntimeError", <<MsgNotConnected>>, None)
    ELSE
      LET sql_executed == inject_limit(s, limit)
      IN  CASE db.exc = "None" -> Returned(sql_executed, db.rows)
            [] db.exc = "mysql.connector.Error" ->
                 Raised("RuntimeError", <<MsgMySQL, db.msg>>,
                        Some(sql_executed))
            [] OTHER -> Raised(db.exc, <<db.msg>>, Some(sql_executed))

MySQL_execute_query(s, limit, isconn, db) ==
    IF ~isconn THEN Raised("RuntimeError", <<MsgNotConnected>>, None)
    ELSE IF ~MySQL_validate_sql(s).valid
    THEN Raised("ValueError", MySQL_validate_sql(s).message, None)
    ELSE
      LET sql_executed == inject_limit(s, limit)
      IN  CASE db.exc = "None" -> Returned(sql_executed, db.rows)
            [] db.exc = "mysql.connector.Error" ->
                 Raised("RuntimeError", <<MsgMySQL, db.msg>>,
                        Some(sql_executed))
            [] OTHER -> Raised(db.exc, <<db.msg>>, Some(sql_executed))

\* SQLExecutor.execute_query returns a dict on every path; a failure dict
\* has success = False, error = message, and sql_executed
Failed(m, shown, sent) ==
    [raised |-> "None", success |-> FALSE, message |-> m, sent |-> sent,
     row_count |-> -1, sql_executed |-> Some(shown)]

Executor_execute_query(s, max_rows, db) ==
    IF ~Executor_validate_sql(s).valid
    THEN Failed(Executor_validate_sql(s).message, s, None)
    ELSE
      LET sql_executed == inject_limit(s, max_rows)
          sent == IF db.at = "connect" THEN None ELSE Some(sql_executed)
      IN  CASE db.exc = "None" -> Returned(sql_executed, db.rows)
            [] db.exc = "sqlite3.OperationalError" ->
                 IF \/ lexeme_has("readonly", db.msg)
                    \/ lexeme_has("attempt to write", db.msg)
                 THEN Failed(<<MsgReadOnly>>, sql_executed, sent)
                 ELSE Failed(<<MsgSqlError, db.msg>>, sql_executed, sent)
            [] db.exc = "sqlite3.Error" ->
                 Failed(<<MsgDbError, db.msg>>, sql_executed, sent)
            [] OTHER -> Failed(<<MsgUnexpected, db.msg>>, sql_executed, sent)

\* the connection of one SQLExecutor.execute_query call: _get_connection
\* opens it once validation has passed (line 154), conn.close() is called on
\* the success path only (line 168).  On the other paths the connection
\* object is left to the garbage collector, which may or may not have
\* reclaimed it when the method returns.
Executor_opens(s, db) == Executor_validate_sql(s).valid /\ db.at # "connect"

Executor_closes(s, db) == Executor_validate_sql(s).valid /\ db.exc = "None"

Executor_connections(n, s, db) ==
    IF Executor_opens(s, db) /\ ~Executor_closes(s, db)
    THEN {n, n + 1}
    ELSE {n}

execute_query(c, s, limit, isconn, db) ==
    CASE c = "sqlite" -> SQLite_execute_query(s, limit, isconn, db)
      [] c = "mysql" -> MySQL_execute_query(s, limit, isconn, db)
      [] c = "executor" -> Executor_execute_query(s, limit, db)

(***************************************************************************)
(* SQLParser.extract_sql.                                                  *)
(***************************************************************************)
MsgExtractFailed == "[could not extract SQL from the AI response]"

\* re.IGNORECASE match of the opening fence with its sql tag
IsFenceOpen(c) == upper_lexeme(c) = "<fence>SQL"
\* three backquotes: a bare fence, or the first characters of a tagged one
IsFence(c) == c = "<fence>" \/ IsFenceOpen(c)

\* re.search(r"<fence>sql\s*(.*?)\s*<fence>", DOTALL | IGNORECASE): group(1),
\* up to whitespace that the caller strips
pattern1(r) ==
    LET opens == {i \in DOMAIN r :
                    IsFenceOpen(r[i]) /\ \E j \in DOMAIN r : j > i /\ IsFence(r[j])}
    IN  IF opens = {} THEN None
        ELSE LET i == MinOf(opens)
                 j == MinOf({k \in DOMAIN r : k > i /\ IsFence(r[k])})
             IN  Some(SubSeq(r, i + 1, j - 1))

\* lexemes that may stand inside a JSON string (no double quote in them)
JsonUnsafe == {"{'sql':'", "'}", "{'sql':1}", "{}", "[]"}

\* a JSON text nested deeper than the interpreter's recursion limit, such as
\* one hundred thousand opening brackets
DeeplyNested == "[[[..."

\* json.loads(ai_response): [kind, has_sql, is_str, sql]; kind is the class
\* of the decoded value or of the exception json.loads raises
json_loads(r) ==
    LET t == str_strip(r)
        n == Len(t)
    IN  IF /\ n >= 2
           /\ t[1] = "{'sql':'"
           /\ t[n] = "'}"
           /\ \A i \in 2..(n - 1) : t[i] \notin JsonUnsafe
        THEN [kind |-> "dict", has_sql |-> TRUE, is_str |-> TRUE,
              sql |-> SubSeq(t, 2, n - 1)]
        ELSE IF t = <<"{'sql':1}">>
        THEN [kind |-> "dict", has_sql |-> TRUE, is_str |-> FALSE, sql |-> <<>>]
        ELSE IF t = <<"{}">>
        THEN [kind |-> "dict", has_sql |-> FALSE, is_str |-> FALSE, sql |-> <<>>]
        ELSE IF t = <<"[]">>
        THEN [kind |-> "list", has_sql |-> FALSE, is_str |-> FALSE, sql |-> <<>>]
        ELSE IF n >= 1 /\ t[1] = DeeplyNested
        THEN [kind |-> "RecursionError", has_sql |-> FALSE, is_str |-> FALSE,
              sql |-> <<>>]
        ELSE [kind |-> "JSONDecodeError", has_sql |-> FALSE, is_str |-> FALSE,
              sql |-> <<>>]

\* a variant of pattern3 whose region runs to the end of the text
pattern3_to_end(r) ==
    LET starts == {i \in DOMAIN r :
                     /\ upper_lexeme(r[i]) \in {"WITH", "SELECT"}
                     /\ i + 1 \in DOMAIN r
                     /\ r[i + 1] \in Whitespace}
    IN  IF starts = {} THEN None
        ELSE Some(SubSeq(r, MinOf(starts), Len(r)))

\* re.search(r"((?:WITH|SELECT)\s+.*?)(?:;|\Z)", DOTALL | IGNORECASE): group(1)
pattern3(r) ==
    LET starts == {i \in DOMAIN r :
                     /\ upper_lexeme(r[i]) \in {"WITH", "SELECT"}
                     /\ i + 1 \in DOMAIN r
                     /\ r[i + 1] \in Whitespace}
    IN  IF starts = {} THEN None
        ELSE LET i == MinOf(starts)
                 semis == {k \in DOMAIN r : k > i /\ r[k] = ";"}
                 last == IF semis = {} THEN Len(r) ELSE MinOf(semis) - 1
             IN  Some(SubSeq(r, i, last))

\* an exception of class cls leaves extract_sql
ParseRaised(cls) ==
    [raised |-> cls, success |-> FALSE, sql |-> None, error_type |-> "None",
     error_message |-> <<>>]

\* the classes named at sql_parser.py:70
ParseCaught == {"JSONDecodeError", "KeyError", "AttributeError"}

ParseOk(s) ==
    [raised |-> "None", success |-> TRUE, sql |-> Some(s),
     error_type |-> "None",
     error_message |-> <<>>]

\* a variant of extract_sql that looks for a fenced block before the prefix
extract_sql_fence_first(r) ==
    IF pattern1(r) # None
    THEN ParseOk(str_strip(pattern1(r)[1]))
    ELSE IF str_strip(r) # <<>> /\ str_strip(r)[1] = "ERROR:"
    THEN [raised |-> "None", success |-> FALSE, sql |-> None,
          error_type |-> "invalid_question",
          error_message |-> str_strip(r)]
    ELSE IF json_loads(r).kind \in {"RecursionError"} \ ParseCaught
    THEN ParseRaised(json_loads(r).kind)
    ELSE IF /\ json_loads(r).kind = "dict"
            /\ json_loads(r).has_sql
            /\ json_loads(r).is_str
    THEN ParseOk(str_strip(json_loads(r).sql))
    ELSE IF pattern3(r) # None
    THEN ParseOk(str_strip(pattern3(r)[1]))
    ELSE [raised |-> "None", success |-> FALSE, sql |-> None,
          error_type |-> "extraction_failed",
          error_message |-> <<MsgExtractFailed>>]

extract_sql(r) ==
    IF str_strip(r) # <<>> /\ str_strip(r)[1] = "ERROR:"
    THEN [raised |-> "None", success |-> FALSE, sql |-> None,
          error_type |-> "invalid_question",
          error_message |-> str_strip(r)]
    ELSE IF pattern1(r) # None
    THEN ParseOk(str_strip(pattern1(r)[1]))
    ELSE IF json_loads(r).kind \in {"RecursionError"} \ ParseCaught
    THEN ParseRaised(json_loads(r).kind)
    ELSE IF /\ json_loads(r).kind = "dict"
            /\ json_loads(r).has_sql
            /\ json_loads(r).is_str
    THEN ParseOk(str_strip(json_loads(r).sql))
    ELSE IF pattern3(r) # None
    THEN ParseOk(str_strip(pattern3(r)[1]))
    ELSE [raised |-> "None", success |-> FALSE, sql |-> None,
          error_type |-> "extraction_failed",
          error_message |-> <<MsgExtractFailed>>]

(***************************************************************************)
(* Inputs.                                                                 *)
(***************************************************************************)
TextsOver(A, n) == UNION {[1..k -> A] : k \in 0..n}

Connectors == {"sqlite", "mysql", "executor"}

SqlLexemes == {" ", ";", "x", "DELETE", "delete", "LIMIT", "limit", "1"}

SqlScenarios ==
    {<<"DELETE", " ", "FROM", " ", "members">>,
     <<"SELECT", " ", "1", ";", " ", "SELECT", " ", "2">>,
     <<"SELECT", " ", "x", " ", "FROM", " ", "members", ";">>,
     <<"SELECT", " ", "'", "insert", "'", ";", " ">>,
     <<"DELETE", " ", "x", ";", "INSERT", " ", "x">>,
     <<"SELECT", " ", "1", ";", ";">>,
     <<"SELECT", " ", "x", "limit", " ", "FROM", " ", "members">>}

SqlTexts == TextsOver(SqlLexemes, MaxLen) \cup SqlScenarios

ResponseLexemes ==
    {"ERROR:", " ", "<fence>sql", "<fence>", "SELECT", ";", "x", "{'sql':'",
     "'}"}

ResponseScenarios ==
    {<<"ERROR:", " ", "x", " ", "<fence>sql", " ", "SELECT", " ", "x", " ",
       "<fence>">>,
     <<" ", "ERROR:", " ", "{'sql':'", "SELECT", " ", "x", "'}">>,
     <<"x", " ", "ERROR:", " ", "x">>,
     <<"<fence>SQL", " ", "select", " ", "x", " ", "<fence>">>,
     <<"with", " ", "x", " ", "SELECT", " ", "x", ";", " ", "x">>,
     <<"{'sql':1}">>, <<"{}">>, <<"[]">>, <<DeeplyNested>>,
     <<"SELECT", " ", "1", " ", "<fence>sql", " ", "SELECT", " ", "2", " ",
       "<fence>">>,
     <<"x", "select", " ", " ", "x", ";", ";", "SELECT", " ", "x">>,
     <<"<fence>sql", " ", "SELECT", " ", "1", ";", " ", "SELECT", " ", "2",
       " ", "<fence>">>,
     <<"{'sql':'", "SELECT", " ", "1", ";", " ", "SELECT", " ", "2", "'}">>,
     <<"SELECT", " ", "1", ";", " ", "SELECT", " ", "2">>}

Responses == TextsOver(ResponseLexemes, MaxLen) \cup ResponseScenarios

NoValidation == [valid |-> FALSE, error_type |-> "unset", message |-> <<>>]
NoParse ==
    [raised |-> "None", success |-> FALSE, sql |-> None,
     error_type |-> "unset", error_message |-> <<>>]

(***************************************************************************)
(* SqlSpec: the connectors called directly, on every text of SqlTexts.     *)
(***************************************************************************)
SqlInit ==
    /\ pc = "call"
    /\ sql \in SqlTexts
    /\ conn \in Connectors
    /\ connected = TRUE
    /\ arg_limit = DEFAULT_LIMIT
    /\ validation = NoValidation
    /\ exec_result = NoResult
    /\ is_executing = FALSE
    /\ user_input = <<>>
    /\ max_retries = MaxBudget
    /\ MAX_DISPLAY_ROWS = PREVIEW_LIMIT
    /\ attempt = 0
    /\ error_context = None
    /\ ai_response = <<>>
    /\ parse_result = NoParse
    /\ ai_calls = 0
    /\ db_calls = 0
    /\ prompt_ctx = None
    /\ outcome = <<>>
    /\ query_history = <<>>
    /\ questions = 0
    /\ terms_file = NoFile
    /\ line_num = 0
    /\ terms = <<>>
    /\ load_result = None
    /\ business_terms = None
    /\ open_conns = 0

SqlFrame ==
    UNCHANGED <<is_executing, user_input, max_retries, MAX_DISPLAY_ROWS,
                attempt, error_context, ai_response, parse_result, sql, conn,
                ai_calls, db_calls, prompt_ctx, outcome, query_history,
                questions, terms_file, line_num, terms, load_result, business_terms>>

\* DatabaseConnector.close()
Close ==
    /\ pc = "call"
    /\ conn \in {"sqlite", "mysql"}
    /\ connected
    /\ connected' = FALSE
    /\ UNCHANGED <<pc, validation, arg_limit, exec_result, open_conns>>
    /\ SqlFrame

\* validate_sql(sql) / _validate_sql(sql)
CallValidate ==
    /\ pc = "call"
    /\ validation' = validate_sql(conn, sql)
    /\ pc' = "validated"
    /\ UNCHANGED <<connected, arg_limit, exec_result, open_conns>>
    /\ SqlFrame

SQLiteExecute ==
    /\ pc = "call"
    /\ conn = "sqlite"
    /\ \E lim \in {1, DEFAULT_LIMIT} :
         \E db \in DbAnswers(conn, inject_limit(sql, lim)) :
            /\ arg_limit' = lim
            /\ exec_result' = SQLite_execute_query(sql, lim, connected, db)
    /\ pc' = "returned"
    /\ UNCHANGED <<connected, validation, open_conns>>
    /\ SqlFrame

MySQLExecute ==
    /\ pc = "call"
    /\ conn = "mysql"
    /\ \E lim \in {1, DEFAULT_LIMIT} :
         \E db \in DbAnswers(conn, inject_limit(sql, lim)) :
            /\ arg_limit' = lim
            /\ exec_result' = MySQL_execute_query(sql, lim, connected, db)
    /\ pc' = "returned"
    /\ UNCHANGED <<connected, validation, open_conns>>
    /\ SqlFrame

ExecutorExecute ==
    /\ pc = "call"
    /\ conn = "executor"
    /\ \E lim \in {1, DEFAULT_LIMIT} :
         \E db \in DbAnswers(conn, inject_limit(sql, lim)) :
            /\ arg_limit' = lim
            /\ exec_result' = Executor_execute_query(sql, lim, db)
            /\ open_conns' \in Executor_connections(open_conns, sql, db)
    /\ pc' = "returned"
    /\ UNCHANGED <<connected, validation>>
    /\ SqlFrame

SqlNext ==
    \/ Close
    \/ CallValidate
    \/ SQLiteExecute
    \/ MySQLExecute
    \/ ExecutorExecute

SqlSpec == SqlInit /\ [][SqlNext]_vars

(***************************************************************************)
(* ExtractSpec: extract_sql called on every text of Responses.             *)
(***************************************************************************)
ExtractInit ==
    /\ pc = "call"
    /\ ai_response \in Responses
    /\ sql = <<>>
    /\ conn = "sqlite"
    /\ connected = TRUE
    /\ arg_limit = DEFAULT_LIMIT
    /\ validation = NoValidation
    /\ exec_result = NoResult
    /\ is_executing = FALSE
    /\ user_input = <<>>
    /\ max_retries = MaxBudget
    /\ MAX_DISPLAY_ROWS = PREVIEW_LIMIT
    /\ attempt = 0
    /\ error_context = None
    /\ parse_result = NoParse
    /\ ai_calls = 0
    /\ db_calls = 0
    /\ prompt_ctx = None
    /\ outcome = <<>>
    /\ query_history = <<>>
    /\ questions = 0
    /\ terms_file = NoFile
    /\ line_num = 0
    /\ terms = <<>>
    /\ load_result = None
    /\ business_terms = None
    /\ open_conns = 0

CallExtract ==
    /\ pc = "call"
    /\ parse_result' = extract_sql(ai_response)
    /\ pc' = "returned"
    /\ UNCHANGED <<is_executing, user_input, max_retries, MAX_DISPLAY_ROWS,
                   attempt, error_context, ai_response, sql, conn, connected,
                   validation, arg_limit, exec_result, ai_calls, db_calls,
                   prompt_ctx, outcome, query_history, questions,
                   terms_file, line_num, terms, load_result, business_terms, open_conns>>

ExtractNext == CallExtract

ExtractSpec == ExtractInit /\ [][ExtractNext]_vars

(***************************************************************************)
(* ErrorHandler and the classification of app.py:395-401.                  *)
(***************************************************************************)
\* ErrorHandler.should_retry
\* a variant of should_retry with permission_error among the retryable types
should_retry_permission(error_type) ==
    IF error_type \in {"syntax_error", "column_error", "table_error",
                       "extraction_failed", "permission_error"}
    THEN TRUE
    ELSE IF error_type \in {"invalid_question", "timeout_error"}
    THEN FALSE
    ELSE TRUE

should_retry(error_type) ==
    IF error_type \in {"syntax_error", "column_error", "table_error",
                       "extraction_failed"}
    THEN TRUE
    ELSE IF error_type \in {"invalid_question", "timeout_error",
                            "permission_error"}
    THEN FALSE
    ELSE TRUE

\* ErrorHandler.handle_error: display_message is the fixed text of the type
\* (named here by the type), or the generic text with the raw message
handle_error(error_type, error_message) ==
    IF error_type \in {"invalid_question", "timeout_error", "permission_error",
                       "column_error", "table_error", "syntax_error",
                       "extraction_failed"}
    THEN <<error_type>>
    ELSE <<"error">> \o error_message

\* a variant of the classification that does not look for the marker of a
\* forbidden operation
classify_marker_unchecked(error_message) ==
    IF msg_has("[not permitted]", error_message)
    THEN "permission_error"
    ELSE IF msg_has("no such column", error_message) THEN "column_error"
    ELSE IF msg_has("no such table", error_message) THEN "table_error"
    ELSE "syntax_error"

\* app.py:395-401
classify(error_message) ==
    IF \/ msg_has("[forbidden operation]", error_message)
       \/ msg_has("[not permitted]", error_message)
    THEN "permission_error"
    ELSE IF msg_has("no such column", error_message) THEN "column_error"
    ELSE IF msg_has("no such table", error_message) THEN "table_error"
    ELSE "syntax_error"

(***************************************************************************)
(* Spec: main() of app.py, one question after another.                     *)
(***************************************************************************)
\* the text typed for the k-th question
QuestionText(k) == <<"question", ToString(k)>>

\* what the text area may hold when the button is clicked for the k-th
\* question: the button was enabled by the text of the previous script run,
\* the click delivers the text as it is now, which may be blank
UserInputs(k) == {QuestionText(k), <<" ">>}

\* what ai_connector.generate may return
AIResponses ==
    {<<"ERROR:", " ", "x">>,
     <<"x">>,
     <<"<fence>sql", " ", "SELECT", " ", "x", " ", "<fence>">>,
     <<"SELECT", " ", "x", " ", "LIMIT", " ", "1", ";", " ", "x">>,
     <<"<fence>sql", "DELETE", " ", "x", "<fence>">>,
     <<"<fence>sql", "SELECT", " ", "1", ";", "SELECT", " ", "2", ";",
       "<fence>">>}

\* `for attempt in range(max_retries)`: the body runs for this attempt
in_range(n, budget) == n < budget

\* variants of the two retry tests that compare with the budget itself
extraction_may_retry_upto_budget(n, budget) == n < budget

execution_may_retry_upto_budget(n, budget) == n < budget

\* app.py:322, `if attempt < max_retries - 1` after a failed extraction
extraction_may_retry(n, budget) == n < budget - 1

\* app.py:393, `if attempt < max_retries - 1` after a failed execution
execution_may_retry(n, budget) == n < budget - 1

\* a variant that takes no answer for a refusal
is_invalid_question_never(res) == FALSE

\* a variant that hands on the message without the statement
execution_error_context_no_sql(s, error_message) ==
    Some([sql |-> None, error_message |-> error_message])

\* app.py:309-312
is_invalid_question(res) ==
    ~res.success /\ res.error_type = "invalid_question"

\* a variant that keeps no message of the failed extraction
extraction_error_context_no_message(res) ==
    Some([sql |-> None, error_message |-> <<>>])

\* a variant that overwrites the message and keeps the sql of the context
\* of the attempt before
extraction_error_context_sql_kept(res) ==
    Some([sql |-> IF error_context = None THEN None ELSE error_context[1].sql,
          error_message |-> res.error_message])

\* app.py:326-331
extraction_error_context(res) ==
    Some([sql |-> None, error_message |-> res.error_message])

\* app.py:409-412
execution_error_context(s, error_message) ==
    Some([sql |-> Some(s), error_message |-> error_message])

\* app.py:374-383 (the timestamp is left out)
history_record(question, s, row_count) ==
    [question |-> question, sql |-> s, row_count |-> row_count,
     success |-> TRUE]

\* a variant of the insertion that puts the record at the end of the list
history_append(history, record) == Append(history, record)

\* app.py:374, query_history.insert(0, record)
history_insert(history, record) == <<record>> \o history

\* app.py:348-351: what the success message adds for a full result
success_message(row_count) ==
    IF row_count >= CAPPED_AT THEN <<"(at most 1000 are shown)">> ELSE <<>>

\* the exception classes of `except (ValueError, PermissionError, RuntimeError)`
HandledErrors == {"ValueError", "PermissionError", "RuntimeError"}

\* the exception classes that reach main(): every one derives from Exception
ExceptionClasses ==
    HandledErrors
    \cup {"Exception", "sqlite3.OperationalError", "sqlite3.Error",
          "mysql.connector.Error", "RecursionError"}

\* a variant of the outer handler that catches the three named classes only
outer_except_named_only(cls) == cls \in HandledErrors

\* app.py:433, `except Exception` catches an exception of class cls
outer_except(cls) == cls \in ExceptionClasses

Init ==
    /\ pc = "idle"
    /\ is_executing = FALSE
    /\ user_input = <<>>
    /\ max_retries \in 1..MaxBudget
    /\ MAX_DISPLAY_ROWS \in {PREVIEW_LIMIT, DEFAULT_LIMIT}
    /\ conn \in {"sqlite", "mysql"}
    /\ connected = TRUE
    /\ attempt = 0
    /\ error_context = None
    /\ ai_response = <<>>
    /\ parse_result = NoParse
    /\ sql = <<>>
    /\ validation = NoValidation
    /\ arg_limit = DEFAULT_LIMIT
    /\ exec_result = NoResult
    /\ ai_calls = 0
    /\ db_calls = 0
    /\ prompt_ctx = None
    /\ outcome = <<>>
    /\ query_history = <<>>
    /\ questions = 0
    /\ terms_file = NoFile
    /\ line_num = 0
    /\ terms = <<>>
    /\ load_result = None
    /\ business_terms = None
    /\ open_conns = 0

Config ==
    <<max_retries, MAX_DISPLAY_ROWS, conn, connected, validation, arg_limit,
      terms_file, line_num, terms, load_result, business_terms, open_conns>>

\* st.error(...); st.session_state.is_executing = False; return
Report(kind, shown) ==
    /\ outcome' = Append(outcome, [kind |-> kind, shown |-> shown])
    /\ is_executing' = FALSE
    /\ pc' = "idle"

\* a variant of `continue` that repeats the attempt without counting it
Continue_same_attempt ==
    /\ attempt' = attempt
    /\ pc' = "attempt"
    /\ UNCHANGED <<is_executing, outcome>>

\* `continue`: the for statement takes the next attempt, or ends and main()
\* goes on to app.py:438
Continue ==
    /\ attempt' = attempt + 1
    /\ pc' = IF in_range(attempt + 1, max_retries) THEN "attempt" ELSE "idle"
    /\ UNCHANGED <<is_executing, outcome>>

\* an exception no handler of main() catches leaves main(): the script run
\* stops there, with nothing reported and is_executing as it was
Propagate ==
    /\ pc' = "fault"
    /\ UNCHANGED <<is_executing, outcome>>

\* the button's on_click (enabled while not executing and the input is not
\* blank): start_execution, then the script reruns with fresh locals
StartExecution ==
    /\ pc = "idle"
    /\ ~is_executing
    /\ questions < MaxQuestions
    /\ user_input' \in UserInputs(questions + 1)
    /\ is_executing' = TRUE
    /\ questions' = questions + 1
    /\ pc' = "rerun"
    /\ ai_calls' = 0
    /\ db_calls' = 0
    /\ outcome' = <<>>
    /\ prompt_ctx' = None
    /\ exec_result' = NoResult
    /\ attempt' = 0
    /\ ai_response' = <<>>
    /\ parse_result' = NoParse
    /\ sql' = <<>>
    /\ UNCHANGED <<error_context, query_history>>
    /\ UNCHANGED Config

\* app.py:272-275, the empty input check
EmptyInput ==
    /\ pc = "rerun"
    /\ is_executing
    /\ str_strip(user_input) = <<>>
    /\ Report("empty_input", <<"[enter a question]">>)
    /\ UNCHANGED <<user_input, attempt, error_context, ai_response,
                   parse_result, sql, exec_result, ai_calls, db_calls,
                   prompt_ctx, query_history, questions>>
    /\ UNCHANGED Config

\* app.py:225-229, the sidebar's clear button, pressed while main() is at
\* rest
ClearHistory ==
    /\ pc = "idle"
    /\ query_history' = <<>>
    /\ UNCHANGED <<pc, is_executing, user_input, attempt, error_context,
                   ai_response, parse_result, sql, exec_result, ai_calls,
                   db_calls, prompt_ctx, outcome, questions>>
    /\ UNCHANGED Config

\* app.py:278-290, create_ai_connector raises
CreateConnectorFails ==
    /\ pc = "rerun"
    /\ is_executing
    /\ str_strip(user_input) # <<>>
    /\ Report("ai_connect_error", <<"AI connection error">>)
    /\ UNCHANGED <<user_input, attempt, error_context, ai_response,
                   parse_result, sql, exec_result, ai_calls, db_calls,
                   prompt_ctx, query_history, questions>>
    /\ UNCHANGED Config

\* a variant that enters the loop with error_context as it was left
EnterLoop_context_kept ==
    /\ pc = "rerun"
    /\ is_executing
    /\ str_strip(user_input) # <<>>
    /\ attempt' = 0
    /\ pc' = IF in_range(0, max_retries) THEN "attempt" ELSE "idle"
    /\ UNCHANGED <<is_executing, user_input, error_context, ai_response,
                   parse_result, sql, exec_result, ai_calls, db_calls,
                   prompt_ctx, outcome, query_history, questions>>
    /\ UNCHANGED Config

\* app.py:292-296: the loop is entered with error_context = None
EnterLoop ==
    /\ pc = "rerun"
    /\ is_executing
    /\ str_strip(user_input) # <<>>
    /\ error_context' = None
    /\ attempt' = 0
    /\ pc' = IF in_range(0, max_retries) THEN "attempt" ELSE "idle"
    /\ UNCHANGED <<is_executing, user_input, ai_response, parse_result, sql,
                   exec_result, ai_calls, db_calls, prompt_ctx, outcome,
                   query_history, questions>>
    /\ UNCHANGED Config

\* app.py:299-303: the prompt is built from error_context, the AI answers;
\* parse_result and exec_result of this attempt are not assigned yet
AIGenerate ==
    /\ pc = "attempt"
    /\ prompt_ctx' = error_context
    /\ ai_calls' = ai_calls + 1
    /\ \E r \in AIResponses : ai_response' = r
    /\ parse_result' = NoParse
    /\ exec_result' = NoResult
    /\ pc' = "extract"
    /\ UNCHANGED <<is_executing, user_input, attempt, error_context, sql,
                   db_calls, outcome, query_history, questions>>
    /\ UNCHANGED Config

\* a variant in which a failed AI call is tried again while budget remains
AIGenerateRaises_retried ==
    /\ pc = "attempt"
    /\ prompt_ctx' = error_context
    /\ ai_calls' = ai_calls + 1
    /\ parse_result' = NoParse
    /\ exec_result' = NoResult
    /\ IF attempt < max_retries - 1
       THEN Continue
       ELSE /\ Report("unexpected_error", <<MsgUnexpected, "Gemini API error">>)
            /\ UNCHANGED attempt
    /\ UNCHANGED <<user_input, error_context, ai_response, sql, db_calls,
                   query_history, questions>>
    /\ UNCHANGED Config

\* app.py:303 raises Exception("... API error: ..."), app.py:433-436 reports
AIGenerateRaises ==
    /\ pc = "attempt"
    /\ prompt_ctx' = error_context
    /\ ai_calls' = ai_calls + 1
    /\ parse_result' = NoParse
    /\ exec_result' = NoResult
    /\ IF outer_except("Exception")
       THEN Report("unexpected_error", <<MsgUnexpected, "Gemini API error">>)
       ELSE Propagate
    /\ UNCHANGED <<user_input, attempt, error_context, ai_response, sql,
                   db_calls, query_history, questions>>
    /\ UNCHANGED Config

\* app.py:306-340
Extract ==
    /\ pc = "extract"
    /\ parse_result' = extract_sql(ai_response)
    /\ LET res == extract_sql(ai_response)
       IN  IF res.raised # "None"
           THEN /\ IF outer_except(res.raised)
                   THEN Report("unexpected_error", <<MsgUnexpected>>)
                   ELSE Propagate
                /\ UNCHANGED <<attempt, error_context, sql>>
           ELSE IF is_invalid_question(res)
           THEN /\ Report("invalid_question",
                          handle_error("invalid_question", res.error_message))
                /\ UNCHANGED <<attempt, error_context, sql>>
           ELSE IF ~res.success
           THEN IF extraction_may_retry(attempt, max_retries)
                THEN /\ error_context' = extraction_error_context(res)
                     /\ Continue
                     /\ UNCHANGED sql
                ELSE /\ Report("extraction_retry_limit",
                               <<"SQL extraction failed (retry limit)">>)
                     /\ UNCHANGED <<attempt, error_context, sql>>
           ELSE /\ sql' = res.sql[1]
                /\ pc' = "execute"
                /\ UNCHANGED <<is_executing, outcome, attempt, error_context>>
    /\ UNCHANGED <<user_input, ai_response, exec_result, ai_calls, db_calls,
                   prompt_ctx, query_history, questions>>
    /\ UNCHANGED Config

\* app.py:342-436: execute_query(sql) and what follows its return or raise
Execute ==
    /\ pc = "execute"
    /\ db_calls' = db_calls + 1
    /\ \E db \in DbAnswers(conn, inject_limit(sql, DEFAULT_LIMIT)) :
         LET res == execute_query(conn, sql, DEFAULT_LIMIT, connected, db)
             error_message == res.message
             error_type == classify(error_message)
         IN  /\ exec_result' = res
             /\ IF res.raised = "None"
                THEN /\ query_history' =
                          history_insert(query_history,
                                         history_record(user_input, sql,
                                                        res.row_count))
                     /\ Report("success", success_message(res.row_count))
                     /\ UNCHANGED <<attempt, error_context>>
                ELSE IF res.raised \in HandledErrors
                THEN IF execution_may_retry(attempt, max_retries)
                     THEN IF should_retry(error_type)
                          THEN /\ error_context' =
                                    execution_error_context(sql, error_message)
                               /\ Continue
                               /\ UNCHANGED query_history
                          ELSE /\ Report(error_type,
                                         handle_error(error_type, error_message))
                               /\ UNCHANGED <<attempt, error_context,
                                              query_history>>
                     ELSE /\ Report("execution_retry_limit",
                                    <<"SQL execution failed (retry limit)">>
                                    \o error_message)
                          /\ UNCHANGED <<attempt, error_context, query_history>>
                ELSE /\ IF outer_except(res.raised)
                        THEN Report("unexpected_error",
                                    <<MsgUnexpected>> \o error_message)
                        ELSE Propagate
                     /\ UNCHANGED <<attempt, error_context, query_history>>
    /\ UNCHANGED <<user_input, ai_response, parse_result, sql, ai_calls,
                   prompt_ctx, questions>>
    /\ UNCHANGED Config

Next ==
    \/ StartExecution
    \/ ClearHistory
    \/ EmptyInput
    \/ CreateConnectorFails
    \/ EnterLoop
    \/ AIGenerate
    \/ AIGenerateRaises
    \/ Extract
    \/ Execute

Spec == Init /\ [][Next]_vars

(***************************************************************************)
(* BudgetSpec: main() under every value Config.MAX_RETRIES can take,       *)
(* config.py:72 accepting any integer of the environment.                  *)
(***************************************************************************)
BudgetInit ==
    /\ pc = "idle"
    /\ is_executing = FALSE
    /\ user_input = <<>>
    /\ max_retries \in -1 .. MaxBudget
    /\ MAX_DISPLAY_ROWS = PREVIEW_LIMIT
    /\ conn \in {"sqlite", "mysql"}
    /\ connected = TRUE
    /\ attempt = 0
    /\ error_context = None
    /\ ai_response = <<>>
    /\ parse_result = NoParse
    /\ sql = <<>>
    /\ validation = NoValidation
    /\ arg_limit = DEFAULT_LIMIT
    /\ exec_result = NoResult
    /\ ai_calls = 0
    /\ db_calls = 0
    /\ prompt_ctx = None
    /\ outcome = <<>>
    /\ query_history = <<>>
    /\ questions = 0
    /\ terms_file = NoFile
    /\ line_num = 0
    /\ terms = <<>>
    /\ load_result = None
    /\ business_terms = None
    /\ open_conns = 0

BudgetSpec == BudgetInit /\ [][Next]_vars

(***************************************************************************)
(* Properties of the retry loop (Spec).                                    *)
(***************************************************************************)
\* the question has been started and main() has stopped working on it
Terminated == pc = "idle" /\ questions > 0

RetryLimitKinds == {"extraction_retry_limit", "execution_retry_limit"}

RetryableTypes == {"syntax_error", "column_error", "table_error"}

\* the attempt that has just run ended in a failure the loop may retry: an
\* extraction failure, or an execution error of a retryable class
LastAttemptRetryable ==
    \/ /\ ~parse_result.success
       /\ parse_result.error_type = "extraction_failed"
    \/ /\ parse_result.success
       /\ exec_result.raised \in HandledErrors
       /\ classify(exec_result.message) \in RetryableTypes

\* C1: for one question the loop makes at most max_retries AI calls; a
\* retry-limit failure is reported after exactly max_retries calls; and when
\* the last attempt of the budget also ends in a retryable failure (all the
\* attempts before it did, or the loop would not have got there) the run
\* ends with the retry-limit failure after exactly max_retries calls.
C1_RetryBudget ==
    /\ ai_calls <= max_retries
    /\ attempt <= max_retries - 1
    /\ (Terminated /\ outcome # <<>>
          /\ outcome[Len(outcome)].kind \in RetryLimitKinds)
       => ai_calls = max_retries
    /\ (Terminated /\ attempt = max_retries - 1 /\ LastAttemptRetryable)
       => /\ ai_calls = max_retries
          /\ Len(outcome) = 1
          /\ outcome[1].kind \in RetryLimitKinds

\* three attempts, each failing in execution, then the retry-limit failure
C1_Witness ==
    /\ Terminated
    /\ max_retries = 3
    /\ ai_calls = 3
    /\ db_calls = 3
    /\ outcome # <<>>
    /\ outcome[1].kind = "execution_retry_limit"

\* C2: a question that is started ends with exactly one terminal outcome
\* (a success or one reported failure, never none and never two), after
\* which main() is idle with is_executing cleared; at most one execution
\* succeeds; and the k-th AI call belongs to attempt k - 1, so no attempt
\* number is taken twice.
C2_OneOutcome ==
    /\ Len(outcome) <= 1
    /\ Terminated => Len(outcome) = 1
    /\ outcome # <<>> => pc = "idle" /\ ~is_executing
    /\ Cardinality({i \in DOMAIN outcome : outcome[i].kind = "success"}) <= 1
    /\ exec_result.success => Terminated /\ outcome[1].kind = "success"
    /\ pc = "attempt" => ai_calls = attempt /\ db_calls <= attempt
    /\ pc \in {"extract", "execute"} =>
          ai_calls = attempt + 1 /\ db_calls <= attempt
    /\ Terminated /\ ai_calls > 0 =>
          ai_calls = attempt + 1 /\ db_calls <= attempt + 1

\* a success in the second attempt, after one retried failure
C2_Witness ==
    /\ Terminated
    /\ outcome = <<[kind |-> "success", shown |-> <<>>]>>
    /\ attempt = 1
    /\ ai_calls = 2
    /\ db_calls = 2
    /\ exec_result.success

(***************************************************************************)
(* Properties of the connectors (SqlSpec).                                 *)
(***************************************************************************)
\* some denylisted keyword occurs in the text, in any letter case
ContainsDenylisted(t) ==
    \E i \in DOMAIN t : \E k \in DOMAIN FORBIDDEN_PATTERNS :
        upper_lexeme(t[i]) = FORBIDDEN_PATTERNS[k]

\* the number of ";"-delimited segments of t that hold more than whitespace:
\* one per lexeme that is the first content of its segment
NonEmptySegments(t) ==
    LET content == {i \in DOMAIN t : t[i] \notin Whitespace \cup {";"}}
    IN  Cardinality({i \in content :
                        \A j \in content :
                            j < i => \E k \in (j + 1)..(i - 1) : t[k] = ";"})

\* C3: in each connector, whenever execute_query has handed a statement to
\* the database, validate_sql answers valid for the statement it was called
\* with: no denylisted keyword in it and at most one ";"; a statement that
\* fails either test is never sent.
C3_ValidatedBeforeSent ==
    (pc = "returned" /\ exec_result.sent # None)
    => /\ validate_sql(conn, sql).valid
       /\ ~ContainsDenylisted(sql)
       /\ str_count(sql, ";") <= 1
       /\ ~ContainsDenylisted(exec_result.sent[1])

\* the MySQL connector has run a statement that passes both tests
C3_Witness ==
    /\ pc = "returned"
    /\ conn = "mysql"
    /\ sql = <<"SELECT", " ", "x", " ", "FROM", " ", "members", ";">>
    /\ exec_result.success
    /\ exec_result.sent # None

\* C4: validate_sql of the SQLite and MySQL connectors, given a text with a
\* denylisted keyword in any letter case anywhere in it (a string literal
\* included), answers invalid with error_type forbidden_pattern and a
\* message that names a denylisted keyword found in the text; for
\* `DELETE FROM members` the keyword named is DELETE.
C4_ForbiddenPattern ==
    (pc = "validated" /\ conn \in {"sqlite", "mysql"}
       /\ ContainsDenylisted(sql))
    => /\ ~validation.valid
       /\ validation.error_type = "forbidden_pattern"
       /\ Len(validation.message) = 2
       /\ validation.message[1] = MsgForbidden
       /\ \E k \in DOMAIN FORBIDDEN_PATTERNS :
             /\ validation.message[2] = FORBIDDEN_PATTERNS[k]
             /\ str_in(FORBIDDEN_PATTERNS[k], str_upper(sql))
       /\ sql = <<"DELETE", " ", "FROM", " ", "members">>
             => validation.message[2] = "DELETE"

\* the keyword stands in lower case inside a string literal
C4_Witness ==
    /\ pc = "validated"
    /\ conn = "sqlite"
    /\ sql = <<"SELECT", " ", "'", "insert", "'", ";", " ">>
    /\ validation.error_type = "forbidden_pattern"
    /\ validation.message = <<MsgForbidden, "INSERT">>

\* C5: validate_sql, given a text with no denylisted keyword and more than
\* one non-empty ";"-delimited segment (`SELECT 1; SELECT 2`), answers
\* invalid with the multiple-statements message and, in the connectors
\* (SQLExecutor's answer has no error_type), error_type multiple_statements.
C5_MultipleStatements ==
    (pc = "validated" /\ ~ContainsDenylisted(sql)
       /\ NonEmptySegments(sql) > 1)
    => /\ ~validation.valid
       /\ validation.message = <<MsgMultiple>>
       /\ conn \in {"sqlite", "mysql"}
             => validation.error_type = "multiple_statements"

\* LIMIT stands in the text as a word of its own, in any letter case
HasLimitWord(t) ==
    \E i \in DOMAIN t :
        /\ upper_lexeme(t[i]) = "LIMIT"
        /\ i = 1 \/ t[i - 1] \in Whitespace \cup {";"}
        /\ i = Len(t) \/ t[i + 1] \in Whitespace \cup {";"}

\* C8: for a statement that passes validation and has no row-limiting
\* clause, the statement execute_query sends is the input, stripped of
\* surrounding whitespace and trailing ";", followed by ` LIMIT <limit>`,
\* and a result that comes back has at most <limit> rows.
C8_LimitAppended ==
    (pc = "returned" /\ validate_sql(conn, sql).valid
       /\ ~HasLimitWord(sql) /\ exec_result.sent # None)
    => /\ exec_result.sent[1] =
             str_rstrip_semi(str_strip(sql))
             \o <<" ", "LIMIT", " ", ToString(arg_limit)>>
       /\ exec_result.success => exec_result.row_count <= arg_limit

(***************************************************************************)
(* Properties of extract_sql (ExtractSpec).                                *)
(***************************************************************************)
\* C6: a response whose trimmed text starts with `ERROR:` is answered with
\* success false, no sql, error_type invalid_question and the whole trimmed
\* text as error_message, whatever fenced block, JSON object or bare SELECT
\* follows the prefix.
C6_ErrorPrefix ==
    (pc = "returned" /\ str_strip(ai_response) # <<>>
       /\ str_strip(ai_response)[1] = "ERROR:")
    => parse_result =
          [raised |-> "None", success |-> FALSE, sql |-> None,
          error_type |-> "invalid_question",
           error_message |-> str_strip(ai_response)]

\* the prefix is followed by a fenced block that holds a SELECT
C6_Witness ==
    /\ pc = "returned"
    /\ ai_response = <<"ERROR:", " ", "x", " ", "<fence>sql", " ", "SELECT",
                       " ", "x", " ", "<fence>">>
    /\ parse_result.error_type = "invalid_question"
    /\ parse_result.error_message = ai_response

(***************************************************************************)
(* Properties of the retry loop (Spec), continued.                         *)
(***************************************************************************)
\* C7: once extraction answers invalid_question in attempt n, main() has
\* stopped: nothing was executed in that attempt, the AI was called exactly
\* n times (attempt counts from 0), and the one outcome reported is
\* invalid_question, whatever budget remains.
C7_InvalidQuestionStops ==
    parse_result.error_type = "invalid_question"
    => /\ Terminated
       /\ ~is_executing
       /\ exec_result = NoResult
       /\ ai_calls = attempt + 1
       /\ db_calls <= attempt
       /\ outcome = <<[kind |-> "invalid_question",
                       shown |-> <<"invalid_question">>]>>

\* the refusal comes in the second of three attempts
C7_Witness ==
    /\ parse_result.error_type = "invalid_question"
    /\ max_retries = 3
    /\ attempt = 1
    /\ ai_calls = 2
    /\ db_calls = 1
    /\ pc = "idle"

\* an execution of this attempt has raised one of the errors main() handles
ExecutionFailed == exec_result.raised \in HandledErrors

\* C9: an execution failure of class column_error, table_error or
\* syntax_error in an attempt that is not the last of the budget does not
\* end the run: the loop goes to the next attempt with an error context
\* that holds the statement just attempted and the message of that failure,
\* and the next AI call builds its prompt from that context; a message with
\* `no such column` in it is of class column_error.
C9_RetryWithContext ==
    /\ (ExecutionFailed /\ classify(exec_result.message) \in RetryableTypes)
       => \/ Terminated /\ attempt = max_retries - 1
             /\ outcome[1].kind = "execution_retry_limit"
          \/ /\ pc = "attempt"
             /\ attempt >= 1
             /\ is_executing
             /\ outcome = <<>>
             /\ error_context =
                   Some([sql |-> Some(sql),
                         error_message |-> exec_result.message])
    /\ (ExecutionFailed /\ msg_has("no such column", exec_result.message))
       => classify(exec_result.message) = "column_error"
    /\ pc \in {"extract", "execute"} => prompt_ctx = error_context
    /\ (pc \in {"extract", "execute"} /\ attempt = 0) => prompt_ctx = None

\* the second AI call is made with the statement and the message of the
\* first attempt's `no such column` failure
C9_Witness ==
    /\ pc = "extract"
    /\ attempt = 1
    /\ ai_calls = 2
    /\ conn = "sqlite"
    /\ prompt_ctx =
          Some([sql |-> Some(<<"SELECT", " ", "x">>),
                error_message |-> <<MsgSqlError, "no such column: x">>])

\* C10: an execution failure of class permission_error ends the run in
\* whatever attempt it happens, with no AI call and no execution after it
\* and, while budget remains, reported as permission_error; a failure of
\* class syntax_error, column_error or table_error ends the run only in the
\* last attempt of the budget.
C10_PermissionNeverRetried ==
    /\ (ExecutionFailed /\ classify(exec_result.message) = "permission_error")
       => /\ Terminated
          /\ ~is_executing
          /\ ai_calls = attempt + 1
          /\ Len(outcome) = 1
          /\ outcome[1].kind =
                IF attempt < max_retries - 1 THEN "permission_error"
                ELSE "execution_retry_limit"
    /\ (ExecutionFailed /\ classify(exec_result.message) \in RetryableTypes
          /\ Terminated)
       => attempt = max_retries - 1

\* a write refused by the read-only database in the first of three attempts
C10_Witness ==
    /\ Terminated
    /\ max_retries = 3
    /\ attempt = 0
    /\ ai_calls = 1
    /\ exec_result.raised = "PermissionError"
    /\ outcome[1].kind = "permission_error"

(***************************************************************************)
(* Properties of the retry loop (Spec): what is reported.                  *)
(***************************************************************************)
\* C11: when the run ends on an execution failure, the report is the
\* classified one: a failure of class permission_error is reported as
\* permission_error, with the text handle_error gives for it, in whatever
\* attempt it happens, and the retry-limit report is made only for a
\* failure of a retryable class.
C11_ClassifiedFailureReported ==
    (Terminated /\ ExecutionFailed)
    => /\ classify(exec_result.message) = "permission_error"
          => outcome =
                <<[kind |-> "permission_error",
                   shown |-> handle_error("permission_error",
                                          exec_result.message)]>>
       /\ outcome[1].kind = "execution_retry_limit"
          => classify(exec_result.message) \in RetryableTypes

\* the AI call of the current attempt was made and did not return
AICallFailed ==
    /\ ai_calls = attempt + 1
    /\ pc # "extract"
    /\ parse_result = NoParse

\* C12: when ai_connector.generate raises in an attempt, the run ends
\* there with the error reported: nothing is extracted or executed in that
\* attempt and no further AI call is made, whatever budget remains; so
\* every attempt after the first follows an extraction or execution
\* failure of the one before, never a failed AI call.
C12_AIFailureAborts ==
    /\ AICallFailed
       => /\ Terminated
          /\ ~is_executing
          /\ exec_result = NoResult
          /\ db_calls <= attempt
          /\ outcome = <<[kind |-> "unexpected_error",
                          shown |-> <<MsgUnexpected, "Gemini API error">>]>>
    /\ (pc = "attempt" /\ attempt > 0)
       => \/ parse_result.error_type = "extraction_failed"
          \/ ExecutionFailed

\* the AI call fails in the second of three attempts
C12_Witness ==
    /\ AICallFailed
    /\ Terminated
    /\ max_retries = 3
    /\ attempt = 1
    /\ ai_calls = 2
    /\ outcome[1].kind = "unexpected_error"

\* C13: when extraction answers extraction_failed in an attempt, nothing
\* is executed in that attempt; if the attempt is not the last of the
\* budget the loop is at the next attempt with an error context of no sql
\* and the message of the extraction failure, and nothing is reported;
\* if it is the last, the run has ended with the extraction retry-limit
\* report.
C13_ExtractionFailedRetry ==
    parse_result.error_type = "extraction_failed"
    => /\ exec_result = NoResult
       /\ \/ /\ pc = "attempt"
             /\ attempt \in 1..(max_retries - 1)
             /\ ai_calls = attempt
             /\ db_calls <= attempt - 1
             /\ is_executing
             /\ outcome = <<>>
             /\ error_context =
                   Some([sql |-> None,
                         error_message |-> parse_result.error_message])
             /\ parse_result.error_message = <<MsgExtractFailed>>
          \/ /\ Terminated
             /\ ~is_executing
             /\ attempt = max_retries - 1
             /\ ai_calls = max_retries
             /\ Len(outcome) = 1
             /\ outcome[1].kind = "extraction_retry_limit"

\* the first attempt's response holds no SQL and budget remains
C13_Witness ==
    /\ pc = "attempt"
    /\ attempt = 1
    /\ max_retries = 2
    /\ parse_result.error_type = "extraction_failed"
    /\ error_context =
          Some([sql |-> None, error_message |-> <<MsgExtractFailed>>])
    /\ db_calls = 0

\* C14: the first attempt of every question, the first question or a later
\* one, has no error context: none when the loop is entered, and none given
\* to PromptGenerator.generate for the first AI call; what an earlier
\* question left in error_context is not used.
C14_NoContextAcrossQuestions ==
    /\ (pc = "attempt" /\ attempt = 0) => error_context = None
    /\ (ai_calls >= 1 /\ attempt = 0) => prompt_ctx = None

\* the first AI call of the second question, after a first question that
\* was answered
C14_Witness ==
    /\ questions = 2
    /\ pc = "extract"
    /\ attempt = 0
    /\ ai_calls = 1
    /\ prompt_ctx = None
    /\ query_history # <<>>

(***************************************************************************)
(* Properties of the connectors (SqlSpec), continued.                      *)
(***************************************************************************)
\* C15: with either backend, SQLite or MySQL, whenever execute_query has
\* handed a statement to the database, the connection it ran on was opened
\* in read-only mode.
C15_ReadOnlyConnection ==
    (pc = "returned" /\ conn \in {"sqlite", "mysql"}
       /\ exec_result.sent # None)
    => connection_mode(conn) = "ro"

(***************************************************************************)
(* Properties of the retry loop (Spec): timeouts, faults, what is shown.   *)
(***************************************************************************)
\* the message of a statement given up after the backend's time limit:
\* SQLite after the 30 s of connect(timeout=30.0), MySQL after its
\* statement time limit
IsTimeoutMessage(m) ==
    \E i \in DOMAIN m :
        m[i] \in {"database is locked",
                  "Query execution was interrupted, maximum statement execution time exceeded"}

\* C16: a timed-out AI call or a timed-out database query ends the run in
\* the attempt where it happens: no further attempt follows it, whatever
\* budget remains.
C16_TimeoutFatal ==
    /\ AICallFailed => Terminated
    /\ (ExecutionFailed /\ IsTimeoutMessage(exec_result.message))
       => Terminated

\* a component has failed in the current attempt: the AI call, or
\* execute_query (validation included) with an exception of any class
ComponentFailed == AICallFailed \/ exec_result.raised # "None"

\* C17: no exception of the AI client, the validator or the executor
\* leaves main(): after every such failure the run has either ended with
\* exactly one report and is_executing cleared, or gone on to the next
\* attempt.
C17_NoUnhandledFault ==
    /\ pc # "fault"
    /\ ComponentFailed
       => \/ Terminated /\ ~is_executing /\ Len(outcome) = 1
          \/ pc = "attempt" /\ attempt >= 1 /\ outcome = <<>>

\* the driver raises an exception that is none of the three classes the
\* inner handler names
C17_Witness ==
    /\ Terminated
    /\ exec_result.raised = "Exception"
    /\ ~is_executing
    /\ outcome = <<[kind |-> "unexpected_error",
                    shown |-> <<MsgUnexpected, "Execution failed on sql">>]>>

(***************************************************************************)
(* Properties of extract_sql (ExtractSpec), continued.                     *)
(***************************************************************************)
\* C18: whenever extract_sql answers success, the sql it returns holds one
\* statement and no more (never more than one non-empty ";"-delimited
\* segment), also when the fenced block or the JSON value of the response
\* holds several.
C18_OneStatementExtracted ==
    (pc = "returned" /\ parse_result.success)
    => NonEmptySegments(parse_result.sql[1]) <= 1

(***************************************************************************)
(* Properties of the retry loop (Spec): what is recorded and configured.   *)
(***************************************************************************)
\* C19: for a question answered with success, the sql of the record put
\* at the head of query_history (the text main() also displays) is the
\* statement that was handed to the database, i.e. the statement after
\* the trailing ";" was stripped and the LIMIT clause appended.
C19_HistoryHoldsExecutedSql ==
    (Terminated /\ exec_result.success)
    => /\ query_history # <<>>
       /\ query_history[1].question = user_input
       /\ query_history[1].sql = exec_result.sent[1]

\* C20: the loop runs on the configured values: it makes no more attempts
\* than the configured retry budget, the LIMIT appended to a statement
\* that has none is the configured number of rows, no more rows than that
\* come back, and the result is reported as capped from that number on.
C20_ConfiguredValuesUsed ==
    /\ ai_calls <= max_retries
    /\ (Terminated /\ exec_result.success /\ ~HasLimitWord(sql))
       => /\ exec_result.sent[1] =
                str_rstrip_semi(str_strip(sql))
                \o <<" ", "LIMIT", " ", ToString(MAX_DISPLAY_ROWS)>>
          /\ exec_result.row_count <= MAX_DISPLAY_ROWS
          /\ (outcome[1].shown # <<>>)
                <=> (exec_result.row_count >= MAX_DISPLAY_ROWS)


(***************************************************************************)
(* BusinessTermsLoader.load and its call at startup.                       *)
(* A line of the file is a record: kind is "blank" (nothing but            *)
(* whitespace), "not_utf8", "not_json", "not_object" (JSON that is not an  *)
(* object) or "object"; an object says which of the two keys it has and    *)
(* their JSON values.                                                      *)
(***************************************************************************)
MAX_TERMS == 200

MaxLinesOver == 2

\* PROHIBITED_WORDS; the Japanese words are glossed:
\* 無視, ignore, 指示, 重要, システム, プロンプト, 以下, 上記, 破棄, 削除,
\* あなたの役割, 代わりに, 最優先
PROHIBITED_WORDS ==
    <<"[disregard]", "ignore", "[instruction]", "[important]", "[system]",
      "[prompt]", "[below]", "[above]", "[discard]", "[delete]",
      "[your role]", "[instead]", "[top priority]">>

\* str.lower() of one lexeme
lower_lexeme(c) ==
    CASE c = "IGNORE" -> "ignore"
      [] c = "Ignore" -> "ignore"
      [] c = "T" -> "t"
      [] c = "D" -> "d"
      [] OTHER -> c

str_lower(t) == [i \in DOMAIN t |-> lower_lexeme(t[i])]

JsonString(t) == [json |-> "string", text |-> t]

JsonNull == [json |-> "null", text |-> <<>>]

\* str(value) of a JSON value
py_str(v) == IF v.json = "null" THEN <<"None">> ELSE v.text

\* the loop of lines 96-100
has_prohibited(term_text, definition_text) ==
    \E k \in DOMAIN PROHIBITED_WORDS :
        \/ str_in(lower_lexeme(PROHIBITED_WORDS[k]), str_lower(term_text))
        \/ str_in(lower_lexeme(PROHIBITED_WORDS[k]),
                  str_lower(definition_text))

LoadRaised(cls) == [raised |-> cls, terms |-> <<>>]

\* a variant of the cap of lines 117-119 that keeps every accepted line
cap_terms_none(t) == t

\* lines 117-119
cap_terms(t) == IF Len(t) > MAX_TERMS THEN SubSeq(t, 1, MAX_TERMS) ELSE t

(***************************************************************************)
(* TermsSpec: load called at startup on every file of TermsFiles.          *)
(***************************************************************************)
Line(kind, has_term, has_definition, term, definition) ==
    [kind |-> kind, has_term |-> has_term, has_definition |-> has_definition,
     term |-> term, definition |-> definition]

\* the i-th well-formed line: {"term": "t<i>", "definition": "d<i>"}
GoodLine(i) ==
    Line("object", TRUE, TRUE, JsonString(<<"t", ToString(i)>>),
         JsonString(<<"d", ToString(i)>>))

OddLines ==
    { Line("blank", FALSE, FALSE, JsonNull, JsonNull),
      Line("object", TRUE, TRUE, JsonString(<<" ">>), JsonString(<<"d">>)),
      Line("object", TRUE, TRUE, JsonString(<<"t">>), JsonString(<<>>)),
      Line("object", TRUE, TRUE, JsonString(<<"x", "IGNORE">>),
           JsonString(<<"d">>)),
      Line("object", TRUE, TRUE, JsonString(<<"t">>),
           JsonString(<<"Ignore", " ", "d">>)),
      Line("object", TRUE, TRUE, JsonString(<<"t">>),
           JsonString(<<"d", "[system]", "d">>)),
      Line("object", TRUE, TRUE, JsonString(<<"T">>), JsonString(<<" ", "D">>)),
      Line("object", TRUE, TRUE, JsonNull, JsonString(<<"d">>)),
      Line("object", TRUE, FALSE, JsonString(<<"t">>), JsonNull),
      Line("not_object", FALSE, FALSE, JsonNull, JsonNull),
      Line("not_json", FALSE, FALSE, JsonNull, JsonNull),
      Line("not_utf8", FALSE, FALSE, JsonNull, JsonNull) }

FileLengths == (0 .. 2) \cup ((MAX_TERMS - 1) .. (MAX_TERMS + MaxLinesOver))

OddPositions == {1, MAX_TERMS}

FileOf(n, B, odd) ==
    [exists |-> TRUE,
     lines |-> [i \in 1 .. n |-> IF i \in B THEN odd ELSE GoodLine(i)]]

TermsFiles ==
    {NoFile} \cup
    {FileOf(n, B, odd) :
        n \in FileLengths, B \in SUBSET OddPositions, odd \in OddLines}

TermsInit ==
    /\ pc = "loading"
    /\ terms_file \in TermsFiles
    /\ line_num = 0
    /\ terms = <<>>
    /\ load_result = None
    /\ business_terms = None
    /\ open_conns = 0
    /\ sql = <<>>
    /\ ai_response = <<>>
    /\ conn = "sqlite"
    /\ connected = TRUE
    /\ arg_limit = DEFAULT_LIMIT
    /\ validation = NoValidation
    /\ exec_result = NoResult
    /\ is_executing = FALSE
    /\ user_input = <<>>
    /\ max_retries = MaxBudget
    /\ MAX_DISPLAY_ROWS = PREVIEW_LIMIT
    /\ attempt = 0
    /\ error_context = None
    /\ parse_result = NoParse
    /\ ai_calls = 0
    /\ db_calls = 0
    /\ prompt_ctx = None
    /\ outcome = <<>>
    /\ query_history = <<>>
    /\ questions = 0

TermsFrame ==
    UNCHANGED <<is_executing, user_input, max_retries, MAX_DISPLAY_ROWS,
                attempt, error_context, ai_response, parse_result, sql,
                conn, connected, validation, arg_limit, exec_result,
                ai_calls, db_calls, prompt_ctx, outcome, query_history,
                questions, terms_file, open_conns>>

\* load ends with r; validate_config_on_startup (app.py:103-112) keeps the
\* list, or leaves business_terms None when load raised
LoadEnds(r) ==
    /\ load_result' = Some(r)
    /\ business_terms' = IF r.raised = "None" THEN Some(r.terms) ELSE None
    /\ pc' = "returned"

\* lines 55-56
FileMissing ==
    /\ pc = "loading"
    /\ ~terms_file.exists
    /\ LoadEnds(LoadRaised("FileNotFoundError"))
    /\ UNCHANGED <<line_num, terms>>
    /\ TermsFrame

\* one iteration of the for loop of lines 63-108
ReadLine ==
    /\ pc = "loading"
    /\ terms_file.exists
    /\ line_num < Len(terms_file.lines)
    /\ line_num' = line_num + 1
    /\ LET line == terms_file.lines[line_num + 1]
           term_text == str_strip(py_str(line.term))
           definition_text == str_strip(py_str(line.definition))
           continue == UNCHANGED <<pc, terms, load_result, business_terms>>
       IN  CASE line.kind = "blank" -> continue
             [] line.kind = "object" ->
                  IF ~line.has_term \/ ~line.has_definition
                  THEN LoadEnds(LoadRaised("ValueError")) /\ UNCHANGED terms
                  ELSE IF term_text = <<>> \/ definition_text = <<>>
                  THEN continue
                  ELSE IF has_prohibited(term_text, definition_text)
                  THEN continue
                  ELSE /\ terms' = Append(terms,
                                          [term |-> term_text,
                                           definition |-> definition_text])
                       /\ UNCHANGED <<pc, load_result, business_terms>>
             [] OTHER -> LoadEnds(LoadRaised("ValueError")) /\ UNCHANGED terms
    /\ TermsFrame

\* lines 117-121
ReturnTerms ==
    /\ pc = "loading"
    /\ terms_file.exists
    /\ line_num = Len(terms_file.lines)
    /\ terms' = cap_terms(terms)
    /\ LoadEnds([raised |-> "None", terms |-> terms'])
    /\ UNCHANGED line_num
    /\ TermsFrame

TermsNext ==
    \/ FileMissing
    \/ ReadLine
    \/ ReturnTerms

TermsSpec == TermsInit /\ [][TermsNext]_vars

(***************************************************************************)
(* C21.                                                                    *)
(***************************************************************************)
LoadReturned == load_result # None /\ load_result[1].raised = "None"

\* the text contains a prohibited word, whatever the case of its letters
ContainsProhibited(text) ==
    \E i \in DOMAIN text : \E k \in DOMAIN PROHIBITED_WORDS :
        lower_lexeme(text[i]) = lower_lexeme(PROHIBITED_WORDS[k])

TermOf(line) == str_strip(py_str(line.term))

DefinitionOf(line) == str_strip(py_str(line.definition))

\* a line that is neither blank nor skipped
Acceptable(line) ==
    /\ line.kind = "object"
    /\ TermOf(line) # <<>>
    /\ DefinitionOf(line) # <<>>
    /\ ~ContainsProhibited(TermOf(line))
    /\ ~ContainsProhibited(DefinitionOf(line))

\* a line the load skips: blank, empty term or definition, prohibited word
Skippable(line) ==
    \/ line.kind = "blank"
    \/ line.kind = "object" /\ line.has_term /\ line.has_definition

\* C21: load returns at most MAX_TERMS pairs, they are the first acceptable
\* lines of the file in file order, none of their texts contains a
\* prohibited word in any case, and a file whose lines are all acceptable or
\* skippable does not fail the load.
C21_TermsCappedAndFiltered ==
    LET accepted == SelectSeq(terms_file.lines, Acceptable)
        returned == load_result[1].terms
    IN  /\ LoadReturned =>
            /\ Len(returned) <= MAX_TERMS
            /\ Len(returned) = IF Len(accepted) < MAX_TERMS
                               THEN Len(accepted) ELSE MAX_TERMS
            /\ \A i \in DOMAIN returned :
                  /\ returned[i] = [term |-> TermOf(accepted[i]),
                                    definition |-> DefinitionOf(accepted[i])]
                  /\ ~ContainsProhibited(returned[i].term)
                  /\ ~ContainsProhibited(returned[i].definition)
            /\ business_terms = Some(returned)
        /\ ( /\ load_result # None
             /\ terms_file.exists
             /\ \A i \in DOMAIN terms_file.lines :
                    Skippable(terms_file.lines[i]) )
           => load_result[1].raised = "None"

\* a file with more than MAX_TERMS acceptable lines and a line with a
\* prohibited word was loaded: MAX_TERMS pairs came back
C21_Witness ==
    /\ LoadReturned
    /\ Len(load_result[1].terms) = MAX_TERMS
    /\ Len(SelectSeq(terms_file.lines, Acceptable)) > MAX_TERMS
    /\ \E i \in DOMAIN terms_file.lines :
          /\ terms_file.lines[i].kind = "object"
          /\ ContainsProhibited(DefinitionOf(terms_file.lines[i]))


(***************************************************************************)
(* C22, C23, C28 (ExtractSpec).                                            *)
(***************************************************************************)
\* what the fallback chain of the specification answers for response r when
\* no exception is raised
ChainAnswer(r, res) ==
    LET t == str_strip(r)
        j == json_loads(r)
    IN  IF t # <<>> /\ t[1] = "ERROR:"
        THEN ~res.success /\ res.error_type = "invalid_question"
        ELSE IF pattern1(r) # None
        THEN res.success /\ res.sql = Some(str_strip(pattern1(r)[1]))
        ELSE IF j.kind = "dict" /\ j.has_sql /\ j.is_str
        THEN res.success /\ res.sql = Some(str_strip(j.sql))
        ELSE IF pattern3(r) # None
        THEN res.success /\ res.sql = Some(str_strip(pattern3(r)[1]))
        ELSE /\ ~res.success
             /\ res.error_type = "extraction_failed"
             /\ res.error_message = <<MsgExtractFailed>>

\* C22: extract_sql answers by the first pattern that matches, in the order
\* sentinel, fenced block, JSON object with key sql, bare WITH/SELECT, total
\* failure; a response that is not a JSON object with a string under sql
\* falls through silently (nothing is raised) to the bare pattern, and when
\* nothing matches the answer is extraction_failed with the fixed message.
C22_FallbackOrder ==
    pc = "returned" =>
        /\ parse_result.raised = "None"
        /\ ChainAnswer(ai_response, parse_result)


\* only the bare pattern matches response r
OnlyBareMatches(r) ==
    /\ ~(str_strip(r) # <<>> /\ str_strip(r)[1] = "ERROR:")
    /\ pattern1(r) = None
    /\ json_loads(r).kind \in {"list", "JSONDecodeError"}
         \/ (json_loads(r).kind = "dict"
               /\ ~(json_loads(r).has_sql /\ json_loads(r).is_str))
    /\ \E i \in DOMAIN r :
          /\ upper_lexeme(r[i]) \in {"WITH", "SELECT"}
          /\ i + 1 \in DOMAIN r
          /\ r[i + 1] \in Whitespace

\* C23: when only the bare pattern matches, the sql returned is the trimmed
\* region from the first WITH or SELECT (in any case) that is followed by
\* whitespace up to just before the first semicolon after it, or to the end
\* of the text; it starts with WITH or SELECT and holds no semicolon.
C23_BareRegion ==
    (pc = "returned" /\ OnlyBareMatches(ai_response)) =>
        LET r == ai_response
            first == MinOf({i \in DOMAIN r :
                              /\ upper_lexeme(r[i]) \in {"WITH", "SELECT"}
                              /\ i + 1 \in DOMAIN r
                              /\ r[i + 1] \in Whitespace})
            semis == {k \in DOMAIN r : k > first /\ r[k] = ";"}
            stop == IF semis = {} THEN Len(r) ELSE MinOf(semis) - 1
            got == parse_result.sql[1]
        IN  /\ parse_result.success
            /\ got = str_strip(SubSeq(r, first, stop))
            /\ upper_lexeme(got[1]) \in {"WITH", "SELECT"}
            /\ ~str_in(";", got)

\* a bare statement that starts inside a word and is followed by two
\* semicolons and a second statement
C23_Witness ==
    /\ pc = "returned"
    /\ ai_response = <<"x", "select", " ", " ", "x", ";", ";", "SELECT", " ",
                       "x">>
    /\ OnlyBareMatches(ai_response)
    /\ parse_result.sql = Some(<<"select", " ", " ", "x">>)


\* C28: whenever extract_sql reports success the sql it returns is not
\* empty, also for an empty fenced block and for a JSON object whose sql
\* value is empty.
C28_ExtractedSqlNonEmpty ==
    (pc = "returned" /\ parse_result.success) => parse_result.sql[1] # <<>>


(***************************************************************************)
(* C24 (BudgetSpec).                                                       *)
(***************************************************************************)
\* C24: once start_execution has set is_executing, every run of the
\* execution branch ends with is_executing False, whatever integer
\* Config.MAX_RETRIES is: when main() is back at rest the flag is down, so
\* the execute button is enabled again.
C24_ExecutingFlagReset == pc = "idle" => ~is_executing


(***************************************************************************)
(* C25, C26, C27, C29 (Spec).                                              *)
(***************************************************************************)
\* execute_query of this attempt raised the validator's rejection: nothing
\* was sent to the database
ValidatorRejected == exec_result.raised = "ValueError" /\ exec_result.sent = None

ForbiddenRejected ==
    ValidatorRejected /\ exec_result.message[1] = MsgForbidden

MultipleRejected == ValidatorRejected /\ exec_result.message = <<MsgMultiple>>

\* C25: a statement the validator rejects inside execute_query for a
\* forbidden keyword is of class permission_error and ends the question
\* with no further AI call; one rejected for multiple statements is of class
\* syntax_error and, when an attempt is left, the loop goes on to a new AI
\* call whose error context holds the rejected statement and the message.
C25_ValidatorRejectionHandled ==
    /\ ForbiddenRejected =>
          /\ classify(exec_result.message) = "permission_error"
          /\ Terminated
          /\ ~is_executing
          /\ ai_calls = attempt + 1
          /\ Len(outcome) = 1
          /\ outcome[1].kind =
                IF attempt < max_retries - 1 THEN "permission_error"
                ELSE "execution_retry_limit"
    /\ MultipleRejected =>
          /\ classify(exec_result.message) = "syntax_error"
          /\ IF attempt = max_retries - 1 /\ pc = "idle"
             THEN outcome[1].kind = "execution_retry_limit"
             ELSE /\ pc = "attempt"
                  /\ is_executing
                  /\ in_range(attempt, max_retries)
                  /\ ai_calls = attempt
                  /\ error_context =
                        Some([sql |-> Some(sql),
                              error_message |-> <<MsgMultiple>>])
    /\ (pc = "extract" /\ error_context # None
          /\ error_context[1].error_message = <<MsgMultiple>>)
       => /\ prompt_ctx = error_context
          /\ ai_calls = attempt + 1
          /\ attempt >= 1

\* the second AI call was made with the two statements the validator had
\* rejected in the first attempt
C25_Witness ==
    /\ pc = "extract"
    /\ attempt = 1
    /\ ai_calls = 2
    /\ prompt_ctx =
          Some([sql |-> Some(<<"SELECT", " ", "1", ";", "SELECT", " ", "2",
                               ";">>),
                error_message |-> <<MsgMultiple>>])


\* C26: within one question the executions are at most the AI calls, which
\* are at most the number of the attempt (attempt + 1, counting from one):
\* an attempt makes at most one AI call and at most one execute_query call,
\* and execute_query is reached only with the statement extract_sql
\* extracted with success from the response of the same attempt.
C26_CallCounts ==
    /\ db_calls <= ai_calls
    /\ ai_calls <= attempt + 1
    /\ pc \in {"extract", "execute"} => ai_calls = attempt + 1
    /\ pc = "execute" =>
          /\ db_calls < ai_calls
          /\ parse_result = extract_sql(ai_response)
          /\ parse_result.success
          /\ sql = parse_result.sql[1]
    /\ exec_result # NoResult =>
          /\ db_calls >= 1
          /\ parse_result = extract_sql(ai_response)
          /\ parse_result.success
          /\ sql = parse_result.sql[1]

\* the third attempt is about to execute after one attempt that failed to
\* extract and one whose execution failed
C26_Witness ==
    /\ pc = "execute"
    /\ attempt = 2
    /\ ai_calls = 3
    /\ db_calls = 1


\* C27: the error context with which attempt n+1 starts describes the
\* failure of attempt n alone: after a failed extraction it is the message
\* of that extraction with no sql, after a failed execution the statement
\* extracted in attempt n with the message of its execution; the prompt of
\* attempt n+1 is built from exactly that context, so no statement of an
\* older attempt is in it.
C27_ContextOfLastFailureOnly ==
    /\ (pc = "attempt" /\ attempt >= 1) =>
          /\ parse_result = extract_sql(ai_response)
          /\ error_context =
                IF ~parse_result.success
                THEN Some([sql |-> None,
                           error_message |-> parse_result.error_message])
                ELSE Some([sql |-> parse_result.sql,
                           error_message |-> exec_result.message])
          /\ parse_result.success => ExecutionFailed
    /\ pc \in {"extract", "execute"} =>
          /\ prompt_ctx = error_context
          /\ attempt = 0 <=> prompt_ctx = None

\* the third attempt starts after a failed extraction that followed a failed
\* execution: the context holds no statement
C27_Witness ==
    /\ pc = "attempt"
    /\ attempt = 2
    /\ db_calls = 1
    /\ ~parse_result.success
    /\ error_context =
          Some([sql |-> None, error_message |-> <<MsgExtractFailed>>])


\* this step is a successful execution that puts one record (question,
\* extracted statement, row count) at the front of the history
SuccessRecorded ==
    /\ pc = "execute"
    /\ exec_result'.success
    /\ query_history' =
          <<[question |-> user_input, sql |-> parse_result.sql[1],
             row_count |-> exec_result'.row_count, success |-> TRUE]>>
          \o query_history

\* this step is not a successful execution and leaves the history alone
HistoryKept ==
    /\ query_history' = query_history
    /\ ~(pc = "execute" /\ exec_result'.success)

\* this step is the user's request to clear the history, made between
\* questions
HistoryCleared ==
    /\ pc = "idle"
    /\ pc' = "idle"
    /\ query_history' = <<>>

\* C29, as stated: the query history changes only on a successful
\* execution; each successful question puts exactly one record (question,
\* extracted SQL, row count) at the front of the list, and every other step,
\* whatever the number of retries, leaves the history unchanged.
C29_HistoryOnlyOnSuccess == [][SuccessRecorded \/ HistoryKept]_vars

\* C29, amended: the query history changes only on a successful execution
\* or on the user's request to clear it; each successful question puts
\* exactly one record at the front of the list, and every failed or aborted
\* question, whatever the number of retries, leaves the history unchanged.
C29_HistoryOnSuccessOrClear ==
    [][SuccessRecorded \/ HistoryCleared \/ HistoryKept]_vars

\* two questions were answered: the record of the second is the first of
\* the list
C29_Witness ==
    /\ Terminated
    /\ Len(query_history) = 2
    /\ query_history[1].question = QuestionText(2)
    /\ query_history[2].question = QuestionText(1)


(***************************************************************************)
(* C30 (SqlSpec).                                                          *)
(***************************************************************************)
\* C30: SQLExecutor.execute_query never raises and never leaks a
\* connection: it always returns a dict that carries sql_executed, a failure
\* dict with an error message on any validation, backend or unexpected
\* error, and the connection it opened is closed when it returns, on the
\* success path and on every failure path.
C30_ExecutorReturnsAndCloses ==
    (pc = "returned" /\ conn = "executor") =>
        /\ exec_result.raised = "None"
        /\ exec_result.sql_executed # None
        /\ ~exec_result.success => exec_result.message # <<>>
        /\ open_conns = 0

====
